---- MODULE Spec2Model ----
(***************************************************************************)
(* Model of the documentation-sync automation of ain3sh/search-context.    *)
(*                                                                         *)
(* Stage 1 (.github/scripts/detect_changed_dirs.py): discovery of the      *)
(* indexable stores of a documentation tree and mapping of a git diff to   *)
(* the stores that changed.                                                *)
(*                                                                         *)
(* Stage 2 (.github/scripts/sync_stores.py and its twin                    *)
(* .github/scripts/sync_file_search_stores.py): for every changed store,   *)
(* delete the remote store of that display name, create a new one and      *)
(* upload the store's qualifying files through a pool of worker threads.   *)
(*                                                                         *)
(* Maintenance (scripts/cleanup_duplicate_stores.py): delete all but the   *)
(* newest remote store of every display name.                              *)
(*                                                                         *)
(* Python strings are modelled as sequences of one-character strings, so   *)
(* that str.startswith, str.endswith, slicing, split, strip, concatenation *)
(* and the code-point order of sorted() are computed character by          *)
(* character, as the interpreter does.  A file-system path is a sequence   *)
(* of names (its segments below the documentation root).                   *)
(***************************************************************************)
EXTENDS Integers, Sequences, FiniteSets, TLC

VARIABLES
    fs,                 \* the documentation tree at DOCS_PATH: [exists, dirs, files]
    exclusion_file,     \* search-context/exclusion-list.txt: [exists, lines]
    env,                \* os.environ: MAX_DEPTH, LAST_SYNC_DOCS_COMMIT, GITHUB_OUTPUT
    pc,                 \* position of main()
    git_calls,          \* the git commands run so far, with their outcome
    result_stdout,      \* result.stdout of git diff --name-only
    all_stores,         \* main's all_stores
    changed_dirs_json,  \* main's changed_dirs_json
    stdout,             \* the lines printed to standard output
    github_output       \* the lines appended to the GITHUB_OUTPUT file

VARIABLES
    script,                 \* the program that runs
    sync_env,               \* os.environ: GEMINI_API_KEY, CHANGED_DIRS, GITHUB_OUTPUT
    docs_tree,              \* the regular files below docs/<store>, per store
    remote,                 \* the FileSearchStores that exist at the service
    documents,              \* the files uploaded into the stores of the service
    next_name,              \* the resource name the service gives out next
    api_calls,              \* the list, delete and create calls made, in order
    sync_pc,                \* position of the program
    client,                 \* genai.Client has been constructed
    changed_dirs,           \* json.loads(CHANGED_DIRS)
    stores_by_name,         \* sync_stores.py: the cached display_name -> store
    idx,                    \* position of "for store_name in changed_dirs"
    new_store,              \* store: the store created in this iteration
    futures,                \* the state of each submitted upload task
    temp_dir,               \* the files of the TemporaryDirectory: name and content
    operations,             \* the operations of the accepted uploads (the list, unordered)
    failed_uploads,         \* the files whose upload task returned an error (unordered)
    completed,              \* the wait loop's counter
    totals,                 \* total_files_uploaded, _failed, _skipped, total_tokens
    summary,                \* /tmp/sync_summary.txt
    sync_output,            \* the lines appended to the GITHUB_OUTPUT file
    exit_code,              \* the exit status of the process
    dry_run,                \* cleanup_duplicate_stores(dry_run)
    keep,                   \* cleanup: the stores kept, one per duplicated name
    delete,                 \* cleanup: the stores still to delete, in order
    deleted_count           \* cleanup: deleted_count

detect_vars == <<fs, exclusion_file, env, pc, git_calls, result_stdout, all_stores,
                 changed_dirs_json, stdout, github_output>>

sync_vars == <<script, sync_env, docs_tree, remote, documents, next_name, api_calls,
               sync_pc, client, changed_dirs, stores_by_name, idx, new_store, futures,
               temp_dir, operations, failed_uploads, completed, totals, summary,
               sync_output, exit_code>>

cleanup_vars == <<dry_run, keep, delete, deleted_count>>

vars == <<detect_vars, sync_vars, cleanup_vars>>

----------------------------------------------------------------------------
(* Bounds of the model.                                                    *)

\* MAX_DEPTH ranges over 0..MaxDepthBound
MaxDepthBound == 2
\* git diff --name-only lists at most MaxDiffFiles paths
MaxDiffFiles == 2

----------------------------------------------------------------------------
(* Strings.                                                                *)

\* ord(c) of the characters that occur in the model
Ord(c) ==
    CASE c = "\n" -> 10
      [] c = " "  -> 32
      [] c = "\"" -> 34
      [] c = "#"  -> 35
      [] c = "*"  -> 42
      [] c = ","  -> 44
      [] c = "."  -> 46
      [] c = "/"  -> 47
      [] c = "["  -> 91
      [] c = "]"  -> 93
      [] c = "a"  -> 97
      [] c = "b"  -> 98
      [] c = "c"  -> 99
      [] c = "f"  -> 102
      [] c = "g"  -> 103
      [] c = "h"  -> 104
      [] c = "i"  -> 105
      [] c = "t"  -> 116
      [] c = "u"  -> 117
      [] c = "w"  -> 119

\* s.startswith(prefix)
StartsWith(s, prefix) ==
    /\ Len(prefix) <= Len(s)
    /\ SubSeq(s, 1, Len(prefix)) = prefix

\* s.endswith(suffix)
EndsWith(s, suffix) ==
    /\ Len(suffix) <= Len(s)
    /\ SubSeq(s, Len(s) - Len(suffix) + 1, Len(s)) = suffix

\* str.isspace() of one character
IsSpace(c) == c \in {" ", "\n"}

\* s.strip()
RECURSIVE Strip(_)
Strip(s) ==
    IF s = <<>> THEN s
    ELSE IF IsSpace(s[1]) THEN Strip(Tail(s))
    ELSE IF IsSpace(s[Len(s)]) THEN Strip(SubSeq(s, 1, Len(s) - 1))
    ELSE s

\* s.split(sep) for a one-character separator: always at least one piece
RECURSIVE Split(_, _)
Split(s, sep) ==
    LET at == {i \in 1..Len(s) : s[i] = sep}
    IN  IF at = {} THEN <<s>>
        ELSE LET i == CHOOSE j \in at : \A k \in at : j <= k
             IN  <<SubSeq(s, 1, i - 1)>> \o Split(SubSeq(s, i + 1, Len(s)), sep)

\* s <= t in Python's order on str (code points, then length)
StrLeq(s, t) ==
    LET n    == IF Len(s) <= Len(t) THEN Len(s) ELSE Len(t)
        diff == {i \in 1..n : s[i] # t[i]}
    IN  IF diff = {} THEN Len(s) <= Len(t)
        ELSE LET i == CHOOSE j \in diff : \A k \in diff : j <= k
             IN  Ord(s[i]) < Ord(t[i])

\* sorted(S) of a set of str
RECURSIVE sorted(_)
sorted(S) ==
    IF S = {} THEN <<>>
    ELSE LET m == CHOOSE x \in S : \A y \in S : StrLeq(x, y)
         IN  <<m>> \o sorted(S \ {m})

\* the elements of a list
Range(seq) == {seq[i] : i \in 1..Len(seq)}

\* every list that holds, for some order of S, one list of R[d] per d in S,
\* concatenated: what a loop over an unordered enumeration of S can append
RECURSIVE ConcatAll(_, _)
ConcatAll(S, R) ==
    IF S = {} THEN {<<>>}
    ELSE UNION {{r \o rest : r \in R[d], rest \in ConcatAll(S \ {d}, R)} : d \in S}

\* json.dumps of a list of str (no character of the model needs escaping)
RECURSIVE JsonItems(_)
JsonItems(list) ==
    IF list = <<>> THEN <<>>
    ELSE <<"\"">> \o list[1] \o <<"\"">>
         \o (IF Len(list) > 1 THEN <<",", " ">> ELSE <<>>)
         \o JsonItems(Tail(list))

JsonDumps(list) == <<"[">> \o JsonItems(list) \o <<"]">>

----------------------------------------------------------------------------
(* The file system.                                                        *)

nA  == <<"a">>
nB  == <<"b">>
nBA == <<"b", "a">>
nC  == <<"c">>
nF  == <<"f">>
nHF == <<".", "f">>
nG  == <<".", "g">>

\* p.name
Name(p) == p[Len(p)]

\* p.name.startswith('.')
Hidden(name) == StartsWith(name, <<".">>)

\* path.iterdir(): the entries directly inside path (in no particular order)
iterdir(path) ==
    {p \in fs.dirs \cup fs.files :
        /\ Len(p) = Len(path) + 1
        /\ SubSeq(p, 1, Len(path)) = path}

\* what a directory of the bounded trees holds directly
DirKinds == {"none", "file", "hidden"}

\* the entries a directory p of kind k adds to the tree
KindDirs(p, k)  == {p} \cup (IF k = "hidden" THEN {p \o <<nG>>} ELSE {})
KindFiles(p, k) ==
    CASE k = "none"   -> {}
      [] k = "file"   -> {p \o <<nF>>}
      [] k = "hidden" -> {p \o <<nHF>>, p \o <<nG, nF>>}

\* The bounded documentation trees: a checkout holds .g/f (its repository
\* metadata), optionally a/f and ba/f, and a chain b, b/c, b/c/a whose
\* directories hold nothing, a file, or only hidden entries.
Chains ==
    {<<>>}
    \cup {<<kb>> : kb \in DirKinds}
    \cup {<<kb, kc>> : kb \in DirKinds, kc \in {"none", "file"}}
    \cup {<<kb, kc, "file">> : kb \in DirKinds, kc \in {"none", "file"}}

ChainPath(n) == SubSeq(<<nB, nC, nA>>, 1, n)

Trees ==
    {[exists |-> FALSE, dirs |-> {}, files |-> {}]}
    \cup
    {[exists |-> TRUE,
      dirs   |-> {<<nG>>}
                 \cup (IF hasA THEN {<<nA>>} ELSE {})
                 \cup (IF hasBA THEN {<<nBA>>} ELSE {})
                 \cup UNION {KindDirs(ChainPath(i), ch[i]) : i \in 1..Len(ch)},
      files  |-> {<<nG, nF>>}
                 \cup (IF hasA THEN {<<nA, nF>>} ELSE {})
                 \cup (IF hasBA THEN {<<nBA, nF>>} ELSE {})
                 \cup UNION {KindFiles(ChainPath(i), ch[i]) : i \in 1..Len(ch)}]
     : hasA \in BOOLEAN, hasBA \in BOOLEAN, ch \in Chains}

----------------------------------------------------------------------------
(* Exclusion patterns.                                                     *)

\* the bounded contents of search-context/exclusion-list.txt
ExclusionFiles ==
    {[exists |-> FALSE, lines |-> <<>>],
     [exists |-> TRUE,  lines |-> <<>>],
     [exists |-> TRUE,  lines |-> << <<"b", "\n">> >>],
     [exists |-> TRUE,  lines |-> << <<"b", "/", "*", "\n">> >>],
     [exists |-> TRUE,  lines |-> << <<"#", " ", "b", "\n">>, <<"\n">>,
                                     <<" ", "a", " ", "\n">>, <<"b", "/", "c">> >>]}

load_exclusion_patterns ==
    IF ~exclusion_file.exists THEN {}
    ELSE LET stripped == {Strip(exclusion_file.lines[i]) :
                             i \in 1..Len(exclusion_file.lines)}
         IN  {line \in stripped : line # <<>> /\ ~StartsWith(line, <<"#">>)}

\* is_excluded whose wildcard match forgets the '/' after the prefix
is_excluded_bare_prefix(store_name, exclusion_patterns) ==
    \E pattern \in exclusion_patterns :
        \/ store_name = pattern
        \/ /\ EndsWith(pattern, <<"/", "*">>)
           /\ StartsWith(store_name, SubSeq(pattern, 1, Len(pattern) - 2))

is_excluded(store_name, exclusion_patterns) ==
    \E pattern \in exclusion_patterns :
        \/ store_name = pattern
        \/ /\ EndsWith(pattern, <<"/", "*">>)
           /\ LET prefix == SubSeq(pattern, 1, Len(pattern) - 2)
              IN  \/ StartsWith(store_name, prefix \o <<"/">>)
                  \/ store_name = prefix

----------------------------------------------------------------------------
(* Store discovery.                                                        *)

\* line 101: if depth > max_depth: return
too_deep_inverted(depth, max_depth) == depth < max_depth

too_deep(depth, max_depth) == depth > max_depth

\* line 104: [p for p in path.iterdir() if not p.name.startswith('.')]
visible_entries(path) == {p \in iterdir(path) : ~Hidden(Name(p))}

\* line 108: sum(1 for f in entries if f.is_file())
count_entries_at_root(entries) == Cardinality(entries)

count_files_at_root(entries) == Cardinality({f \in entries : f \in fs.files})

\* line 111: f"{prefix}{path.name}" if prefix else path.name
store_name_without_prefix(prefix, path) == Name(path)

store_name_of(prefix, path) ==
    IF prefix # <<>> THEN prefix \o Name(path) ELSE Name(path)

\* line 123: f"{prefix}{path.name}/" if prefix or depth > 0 else f"{path.name}/"
new_prefix_of(prefix, path, depth) ==
    IF prefix # <<>> \/ depth > 0
    THEN prefix \o Name(path) \o <<"/">>
    ELSE Name(path) \o <<"/">>

\* scan_directory that also scans the subdirectories of a store
RECURSIVE scan_directory_descending(_, _, _, _, _)
scan_directory_descending(path, depth, prefix, max_depth, exclusion_patterns) ==
    IF too_deep(depth, max_depth) THEN {<<>>}
    ELSE
      LET entries       == visible_entries(path)
          files_at_root == count_files_at_root(entries)
          store_name    == store_name_of(prefix, path)
          own           == IF files_at_root > 0
                              /\ ~is_excluded(store_name, exclusion_patterns)
                           THEN <<store_name>> ELSE <<>>
          subdirs       == {d \in entries : d \in fs.dirs}
          below         == ConcatAll(subdirs,
                              [subdir \in subdirs |->
                                  scan_directory_descending(subdir, depth + 1,
                                      new_prefix_of(prefix, path, depth),
                                      max_depth, exclusion_patterns)])
      IN  {own \o rest : rest \in below}

\* scan_directory(path, depth, prefix): the lists it can append to indexable,
\* one per order in which iterdir() enumerates the subdirectories
RECURSIVE scan_directory(_, _, _, _, _)
scan_directory(path, depth, prefix, max_depth, exclusion_patterns) ==
    IF too_deep(depth, max_depth) THEN {<<>>}
    ELSE
      LET entries       == visible_entries(path)
          files_at_root == count_files_at_root(entries)
      IN  IF files_at_root > 0
          THEN LET store_name == store_name_of(prefix, path)
               IN  IF is_excluded(store_name, exclusion_patterns)
                   THEN {<<>>}
                   ELSE {<<store_name>>}
          ELSE LET subdirs    == {d \in entries : d \in fs.dirs}
                   new_prefix == new_prefix_of(prefix, path, depth)
               IN  ConcatAll(subdirs,
                       [subdir \in subdirs |->
                           scan_directory(subdir, depth + 1, new_prefix,
                                          max_depth, exclusion_patterns)])

\* get_indexable_stores(docs_path, max_depth): the lists it can return, one per
\* order in which the file system enumerates the directories
get_indexable_stores(max_depth) ==
    LET exclusion_patterns == load_exclusion_patterns
    IN  IF ~fs.exists THEN {<<>>}
        ELSE LET items == {item \in iterdir(<<>>) :
                              item \in fs.dirs /\ ~Hidden(Name(item))}
             IN  ConcatAll(items,
                     [item \in items |->
                         scan_directory(item, 0, <<>>, max_depth,
                                        exclusion_patterns)])

----------------------------------------------------------------------------
(* The git repository at DOCS_PATH.                                        *)

\* the paths git diff --name-only can list, relative to the top of the
\* repository checked out at DOCS_PATH
DiffPaths ==
    {<<"a", "/", "f">>,
     <<"b">>,
     <<"b", "/", "f">>,
     <<"b", "/", "c", "/", "f">>,
     <<"b", "/", ".", "g", "/", "f">>,
     <<"b", "a", "/", "f">>,
     <<".", "g", "i", "t", "h", "u", "b", "/", "w">>}

\* the text git diff --name-only prints: one path per line, in path order
RECURSIVE JoinLines(_)
JoinLines(lines) ==
    IF lines = <<>> THEN <<>>
    ELSE lines[1] \o <<"\n">> \o JoinLines(Tail(lines))

DiffOutputs ==
    {JoinLines(sorted(S)) : S \in {T \in SUBSET DiffPaths : Cardinality(T) <= MaxDiffFiles}}

----------------------------------------------------------------------------
(* main().                                                                 *)

\* os.environ: a variable may be unset
Unset == "<unset>"

LastSyncValues == {Unset, "", "4f2a9c1"}

GithubOutputValues == {Unset, "/tmp/github_output"}

\* os.environ.get('LAST_SYNC_DOCS_COMMIT', '')
last_commit ==
    IF env.LAST_SYNC_DOCS_COMMIT = Unset THEN "" ELSE env.LAST_SYNC_DOCS_COMMIT

\* int(os.environ.get('MAX_DEPTH', '2'))
max_depth == env.MAX_DEPTH

\* key.upper()
Upper(key) == CASE key = "changed_dirs" -> "CHANGED_DIRS"

\* an output entry written as one key=value line
write_github_output_key_value(key, value) ==
    IF env.GITHUB_OUTPUT # Unset /\ env.GITHUB_OUTPUT # ""
    THEN github_output \o << key \o "=", value >>
    ELSE github_output

\* write_github_output(key, value): the file after the call
write_github_output(key, value) ==
    IF env.GITHUB_OUTPUT # Unset /\ env.GITHUB_OUTPUT # ""
    THEN github_output \o << key \o "<<EOF_" \o Upper(key),
                             value,
                             "EOF_" \o Upper(key) >>
    ELSE github_output

\* line 198: [l.strip() for l in result.stdout.split('\n') if l.strip()]
RECURSIVE StripNonEmpty(_)
StripNonEmpty(lines) ==
    IF lines = <<>> THEN <<>>
    ELSE (IF Strip(lines[1]) # <<>> THEN <<Strip(lines[1])>> ELSE <<>>)
         \o StripNonEmpty(Tail(lines))

changed_files == StripNonEmpty(Split(result_stdout, "\n"))

\* a filter that looks at the first segment only
skip_path_first_segment(file_path) ==
    LET parts == Split(file_path, "/")
    IN  StartsWith(parts[1], <<".", "g", "i", "t", "h", "u", "b">>)

\* lines 209-211: the paths the mapping skips
skip_path(file_path) ==
    LET parts == Split(file_path, "/")
    IN  \/ StartsWith(parts[1], <<".", "g", "i", "t", "h", "u", "b">>)
        \/ \E i \in 1..Len(parts) : StartsWith(parts[i], <<".">>)

\* a match on the bare character prefix, without the '/' boundary
matches_bare_prefix(file_path, store) == StartsWith(file_path, store)

\* lines 212-215: the first store of the list that the path lies under
matches(file_path, store) ==
    file_path = store \/ StartsWith(file_path, store \o <<"/">>)

first_match(file_path, stores) ==
    LET hits == {i \in 1..Len(stores) : matches(file_path, stores[i])}
    IN  IF hits = {} THEN {}
        ELSE {stores[CHOOSE i \in hits : \A j \in hits : i <= j]}

\* lines 206-215: changed_stores
changed_stores(files, stores) ==
    UNION {first_match(files[i], stores) :
              i \in {j \in 1..Len(files) : ~skip_path(files[j])}}

\* the state of the cleanup while another program runs
CleanupIdle ==
    /\ dry_run = FALSE
    /\ keep = {}
    /\ delete = <<>>
    /\ deleted_count = 0

\* the state of the sync stage and of the service while detection runs
SyncIdle ==
    /\ CleanupIdle
    /\ script = "detect_changed_dirs"
    /\ sync_env = [GEMINI_API_KEY |-> Unset,
                   CHANGED_DIRS   |-> [exists |-> FALSE, value |-> <<>>],
                   GITHUB_OUTPUT  |-> Unset]
    /\ docs_tree = <<>>
    /\ remote = {}
    /\ documents = {}
    /\ next_name = 1
    /\ api_calls = <<>>
    /\ sync_pc = "idle"
    /\ client = FALSE
    /\ changed_dirs = [type |-> "none", items |-> <<>>, truthy |-> FALSE]
    /\ stores_by_name = <<>>
    /\ idx = 1
    /\ new_store = [name |-> 0, display_name |-> <<>>, create_time |-> 0]
    /\ futures = <<>>
    /\ temp_dir = {}
    /\ operations = {}
    /\ failed_uploads = {}
    /\ completed = 0
    /\ totals = [uploaded |-> 0, failed |-> 0, skipped |-> 0, tokens |-> 0]
    /\ summary = <<>>
    /\ sync_output = <<>>
    /\ exit_code = -1

Init ==
    /\ fs \in Trees
    /\ exclusion_file \in ExclusionFiles
    /\ env \in [MAX_DEPTH : 0..MaxDepthBound,
                LAST_SYNC_DOCS_COMMIT : LastSyncValues,
                GITHUB_OUTPUT : GithubOutputValues]
    /\ pc = "start"
    /\ git_calls = <<>>
    /\ result_stdout = <<>>
    /\ all_stores = <<>>
    /\ changed_dirs_json = <<>>
    /\ stdout = <<>>
    /\ github_output = <<>>
    /\ SyncIdle

\* a run without a prior reference that reports no change
FullDiscovery_nothing ==
    /\ pc = "start"
    /\ last_commit = ""
    /\ changed_dirs_json' = JsonDumps(<<>>)
    /\ pc' = "emit"
    /\ UNCHANGED <<fs, exclusion_file, env, git_calls, result_stdout, all_stores,
                   stdout, github_output>>
    /\ UNCHANGED <<sync_vars, cleanup_vars>>

\* lines 156-159: no prior reference, full discovery
FullDiscovery ==
    /\ pc = "start"
    /\ last_commit = ""
    /\ \E stores \in get_indexable_stores(max_depth) :
          /\ all_stores' = stores
          /\ changed_dirs_json' = JsonDumps(stores)
    /\ pc' = "emit"
    /\ UNCHANGED <<fs, exclusion_file, env, git_calls, result_stdout, stdout,
                   github_output>>
    /\ UNCHANGED <<sync_vars, cleanup_vars>>

\* a failing git command whose CalledProcessError propagates
Fallback_propagates(call) ==
    /\ git_calls' = Append(git_calls, call)
    /\ pc' = "raised"
    /\ UNCHANGED <<fs, exclusion_file, env, result_stdout, all_stores,
                   changed_dirs_json, stdout, github_output>>
    /\ UNCHANGED <<sync_vars, cleanup_vars>>

\* lines 175-179 and 192-196: fall back to full discovery, emit and return
Fallback(call) ==
    /\ \E stores \in get_indexable_stores(max_depth) :
          /\ all_stores' = stores
          /\ changed_dirs_json' = JsonDumps(stores)
          /\ stdout' = Append(stdout, JsonDumps(stores))
          /\ github_output' = write_github_output("changed_dirs", JsonDumps(stores))
    /\ git_calls' = Append(git_calls, call)
    /\ pc' = "done"
    /\ UNCHANGED <<fs, exclusion_file, env, result_stdout>>
    /\ UNCHANGED <<sync_vars, cleanup_vars>>

\* lines 163-171: git cat-file -e <sha>^{commit} succeeds
CatFileOk ==
    /\ pc = "start"
    /\ last_commit # ""
    /\ fs.exists
    /\ git_calls' = Append(git_calls, [cmd |-> "cat-file", returncode |-> 0])
    /\ pc' = "diff"
    /\ UNCHANGED <<fs, exclusion_file, env, result_stdout, all_stores,
                   changed_dirs_json, stdout, github_output>>
    /\ UNCHANGED <<sync_vars, cleanup_vars>>

\* lines 172-179: git cat-file exits non-zero (CalledProcessError)
CatFileFails ==
    /\ pc = "start"
    /\ last_commit # ""
    /\ fs.exists
    /\ Fallback([cmd |-> "cat-file", returncode |-> 128])

\* lines 164-170: subprocess.run(cwd=docs_path) cannot start git in a missing
\* directory; the FileNotFoundError is caught nowhere and main() raises
CatFileCannotRun ==
    /\ pc = "start"
    /\ last_commit # ""
    /\ ~fs.exists
    /\ pc' = "raised"
    /\ UNCHANGED <<fs, exclusion_file, env, git_calls, result_stdout, all_stores,
                   changed_dirs_json, stdout, github_output>>
    /\ UNCHANGED <<sync_vars, cleanup_vars>>

\* lines 182-189: git diff --name-only <sha>..HEAD succeeds
GitDiffOk ==
    /\ pc = "diff"
    /\ \E out \in DiffOutputs : result_stdout' = out
    /\ git_calls' = Append(git_calls, [cmd |-> "diff", returncode |-> 0])
    /\ pc' = "map"
    /\ UNCHANGED <<fs, exclusion_file, env, all_stores, changed_dirs_json, stdout,
                   github_output>>
    /\ UNCHANGED <<sync_vars, cleanup_vars>>

\* lines 190-196: git diff exits non-zero (CalledProcessError)
GitDiffFails ==
    /\ pc = "diff"
    /\ Fallback([cmd |-> "diff", returncode |-> 128])

\* an empty diff that triggers a full resync
NoChanges_full_resync ==
    /\ pc = "map"
    /\ changed_files = <<>>
    /\ \E stores \in get_indexable_stores(max_depth) :
          /\ all_stores' = stores
          /\ changed_dirs_json' = JsonDumps(stores)
    /\ pc' = "emit"
    /\ UNCHANGED <<fs, exclusion_file, env, git_calls, result_stdout, stdout,
                   github_output>>
    /\ UNCHANGED <<sync_vars, cleanup_vars>>

\* lines 198-201: nothing changed
NoChanges ==
    /\ pc = "map"
    /\ changed_files = <<>>
    /\ changed_dirs_json' = JsonDumps(<<>>)
    /\ pc' = "emit"
    /\ UNCHANGED <<fs, exclusion_file, env, git_calls, result_stdout, all_stores,
                   stdout, github_output>>
    /\ UNCHANGED <<sync_vars, cleanup_vars>>

\* lines 202-223: map the changed files to the indexable stores
MapChanges ==
    /\ pc = "map"
    /\ changed_files # <<>>
    /\ \E stores \in get_indexable_stores(max_depth) :
          /\ all_stores' = stores
          /\ changed_dirs_json' = JsonDumps(sorted(changed_stores(changed_files, stores)))
    /\ pc' = "emit"
    /\ UNCHANGED <<fs, exclusion_file, env, git_calls, result_stdout, stdout,
                   github_output>>
    /\ UNCHANGED <<sync_vars, cleanup_vars>>

\* lines 225-226
Emit ==
    /\ pc = "emit"
    /\ stdout' = Append(stdout, changed_dirs_json)
    /\ github_output' = write_github_output("changed_dirs", changed_dirs_json)
    /\ pc' = "done"
    /\ UNCHANGED <<fs, exclusion_file, env, git_calls, result_stdout, all_stores,
                   changed_dirs_json>>
    /\ UNCHANGED <<sync_vars, cleanup_vars>>

Next ==
    \/ FullDiscovery
    \/ CatFileOk
    \/ CatFileFails
    \/ CatFileCannotRun
    \/ GitDiffOk
    \/ GitDiffFails
    \/ NoChanges
    \/ MapChanges
    \/ Emit

Spec == Init /\ [][Next]_vars

----------------------------------------------------------------------------
(* Notions the properties are stated in.                                   *)

\* the '/'-joined path of directory p relative to the documentation root
RECURSIVE Identity(_)
Identity(p) ==
    IF Len(p) = 1 THEN p[1]
    ELSE Identity(SubSeq(p, 1, Len(p) - 1)) \o <<"/">> \o p[Len(p)]

\* directory p has a non-hidden regular file directly inside it
HasVisibleFile(p) ==
    \E f \in fs.files :
        /\ Len(f) = Len(p) + 1
        /\ SubSeq(f, 1, Len(p)) = p
        /\ f[Len(f)][1] # "."

\* no segment of path p is hidden
NoHiddenSegment(p) == \A i \in 1..Len(p) : p[i][1] # "."

\* the traversal with depth limit D reaches directory p: p is at depth at most
\* D, it is not hidden or below a hidden directory, and no directory above it
\* holds a non-hidden file
Visited(p, D) ==
    /\ Len(p) <= D + 1
    /\ NoHiddenSegment(p)
    /\ \A i \in 1..(Len(p) - 1) : ~HasVisibleFile(SubSeq(p, 1, i))

\* identity s is pattern's own name, or pattern is <prefix>/* and s is the
\* directory <prefix> or a directory below it (segment by segment)
PatternCovers(pattern, s) ==
    \/ pattern = s
    \/ /\ Len(pattern) >= 2
       /\ pattern[Len(pattern) - 1] = "/"
       /\ pattern[Len(pattern)] = "*"
       /\ LET pre == Split(SubSeq(pattern, 1, Len(pattern) - 2), "/")
              seg == Split(s, "/")
          IN  /\ Len(pre) <= Len(seg)
              /\ \A i \in 1..Len(pre) : seg[i] = pre[i]

ExcludedByList(s) == \E pattern \in load_exclusion_patterns : PatternCovers(pattern, s)

\* the indexable store set of the tree for depth limit D
IndexableSet(D) ==
    LET patterns == load_exclusion_patterns
    IN  {Identity(p) : p \in {q \in fs.dirs :
            /\ Visited(q, D)
            /\ HasVisibleFile(q)
            /\ ~\E pattern \in patterns : PatternCovers(pattern, Identity(q))}}

\* the strings of a JSON array of strings
RECURSIVE JsonStrings(_)
JsonStrings(s) ==
    LET q == {i \in 1..Len(s) : s[i] = "\""}
    IN  IF q = {} THEN <<>>
        ELSE LET i    == CHOOSE k \in q : \A m \in q : k <= m
                 rest == SubSeq(s, i + 1, Len(s))
                 q2   == {k \in 1..Len(rest) : rest[k] = "\""}
                 j    == CHOOSE k \in q2 : \A m \in q2 : k <= m
             IN  <<SubSeq(rest, 1, j - 1)>> \o JsonStrings(SubSeq(rest, j + 1, Len(rest)))

\* the run took the path without a prior reference
NoPriorRun == env.LAST_SYNC_DOCS_COMMIT \in {Unset, ""}

\* the last git command of the run exited non-zero
QueryFailed ==
    /\ git_calls # <<>>
    /\ git_calls[Len(git_calls)].returncode # 0

\* both git commands succeeded
QueriesSucceeded ==
    /\ Len(git_calls) = 2
    /\ git_calls[1].returncode = 0
    /\ git_calls[2].returncode = 0

\* the diff lists no file: its output holds nothing but white space
DiffEmpty == \A i \in 1..Len(result_stdout) : result_stdout[i] \in {" ", "\n"}

\* get_indexable_stores has just returned and all_stores holds its result
DiscoveryRan ==
    \/ pc = "emit" /\ NoPriorRun
    \/ QueryFailed
    \/ pc = "emit" /\ QueriesSucceeded /\ ~DiffEmpty

\* the set of identities the run has emitted on standard output
Emitted == Range(JsonStrings(stdout[1]))

----------------------------------------------------------------------------
(* C1 *)

\* C1 as stated, read in its favour (hidden directories and identities that an
\* exclusion pattern covers set aside): after discovery, every directory below
\* the documentation root is a returned store iff it has a non-hidden regular
\* file directly inside it.
C1_AsStated ==
    DiscoveryRan =>
        \A p \in {q \in fs.dirs : NoHiddenSegment(q) /\ ~ExcludedByList(Identity(q))} :
            (Identity(p) \in Range(all_stores)) <=> HasVisibleFile(p)

\* C1 (amended): after discovery, a directory P is a returned store iff the
\* traversal reaches P (P is at depth at most max_depth, P and the directories
\* above it are not hidden, and no directory above P holds a non-hidden file),
\* P has a non-hidden regular file directly inside it, and P's identity matches
\* no exclusion pattern. A directory holding only subdirectories or only
\* hidden files is never returned.
C1_StoreIffReachedWithFile ==
    DiscoveryRan =>
        LET returned == Range(all_stores)
            patterns == load_exclusion_patterns
        IN  /\ \A p \in fs.dirs :
                  (Identity(p) \in returned) <=>
                      /\ Visited(p, max_depth)
                      /\ HasVisibleFile(p)
                      /\ ~\E pattern \in patterns : PatternCovers(pattern, Identity(p))
            /\ \A s \in returned :
                  \E p \in fs.dirs : s = Identity(p) /\ HasVisibleFile(p)

\* a discovery that returned a store, left out a directory with a file below
\* that store, and left out a directory holding only hidden entries
C1_Witness ==
    /\ DiscoveryRan
    /\ \E p, q, r \in fs.dirs :
          /\ Identity(p) \in Range(all_stores)
          /\ Len(q) > Len(p) /\ SubSeq(q, 1, Len(p)) = p
          /\ HasVisibleFile(q) /\ NoHiddenSegment(q)
          /\ Identity(q) \notin Range(all_stores)
          /\ NoHiddenSegment(r) /\ ~HasVisibleFile(r)
          /\ \E f \in fs.files : SubSeq(f, 1, Len(r)) = r
          /\ Identity(r) \notin Range(all_stores)

----------------------------------------------------------------------------
(* C2 *)

\* C2: in the list get_indexable_stores returns no identity appears twice and
\* no identity is nested under another returned identity: a store is a leaf of
\* the traversal.
C2_StoresAreLeaves ==
    DiscoveryRan =>
        /\ \A i, j \in 1..Len(all_stores) :
              i # j => all_stores[i] # all_stores[j]
        /\ \A i, j \in 1..Len(all_stores) :
              ~StartsWith(all_stores[i], all_stores[j] \o <<"/">>)

\* a discovery that returned two stores, one of them a directory that has a
\* subdirectory with a file of its own
C2_Witness ==
    /\ DiscoveryRan
    /\ Len(all_stores) >= 2
    /\ \E p, q \in fs.dirs :
          /\ Identity(p) \in Range(all_stores)
          /\ Len(q) = Len(p) + 1 /\ SubSeq(q, 1, Len(p)) = p
          /\ NoHiddenSegment(q) /\ HasVisibleFile(q)
          /\ Len(q) <= max_depth + 1

----------------------------------------------------------------------------
(* C3 *)

\* the non-hidden top-level directories with a non-hidden file of their own
\* that no exclusion pattern covers
TopLevelStores ==
    {Identity(p) : p \in {q \in fs.dirs :
        Len(q) = 1 /\ NoHiddenSegment(q) /\ HasVisibleFile(q)
        /\ ~ExcludedByList(Identity(q))}}

\* C3: with max_depth 0 discovery returns exactly the top-level directories
\* that have root-level files; and whatever discovery returns for a smaller
\* depth limit is among what it returned for max_depth.
C3_DepthMonotone ==
    (pc = "emit" /\ NoPriorRun) =>
        /\ max_depth = 0 => Range(all_stores) = TopLevelStores
        /\ \A D1 \in 0..max_depth :
              \A smaller \in get_indexable_stores(D1) :
                  Range(smaller) \subseteq Range(all_stores)

\* a discovery with a positive depth limit that returned a store which the
\* limit 0 does not reach
C3_Witness ==
    /\ pc = "emit" /\ NoPriorRun
    /\ max_depth > 0
    /\ \E s \in Range(all_stores) :
          \A smaller \in get_indexable_stores(0) : s \notin Range(smaller)
    /\ \E s \in Range(all_stores) :
          \A smaller \in get_indexable_stores(0) : s \in Range(smaller)

----------------------------------------------------------------------------
(* C4 *)

\* the identities is_excluded is asked about, once per loaded pattern set
\* (at the start of a run)
StoreNames ==
    {<<"a">>, <<"b">>, <<"b", "a">>, <<"b", "/", "c">>,
     <<"b", "/", "c", "/", "a">>, <<"c">>}

\* C4: is_excluded(store, patterns) is true exactly when some pattern equals
\* the identity, or some pattern is <prefix>/* and the identity is <prefix> or
\* lies below <prefix>/; so pattern b excludes only b (not b/c, not ba) and
\* pattern b/* excludes b and b/c (not ba); and no excluded identity is in
\* the list get_indexable_stores returns.
C4_ExclusionExact ==
    LET patterns == load_exclusion_patterns
    IN  /\ pc = "start" =>
              /\ \A s \in StoreNames :
                    is_excluded(s, patterns) <=>
                        \E pattern \in patterns : PatternCovers(pattern, s)
              /\ patterns = {<<"b">>} =>
                    {s \in StoreNames : is_excluded(s, patterns)} = {<<"b">>}
              /\ patterns = {<<"b", "/", "*">>} =>
                    {s \in StoreNames : is_excluded(s, patterns)} =
                        {<<"b">>, <<"b", "/", "c">>, <<"b", "/", "c", "/", "a">>}
        /\ DiscoveryRan =>
              \A s \in Range(all_stores) :
                  ~\E pattern \in patterns : PatternCovers(pattern, s)

\* a discovery under the pattern b/* that reached b/c, which has a file, left
\* it out, and returned ba
C4_Witness ==
    /\ DiscoveryRan
    /\ load_exclusion_patterns = {<<"b", "/", "*">>}
    /\ Visited(<<nB, nC>>, max_depth)
    /\ HasVisibleFile(<<nB, nC>>)
    /\ <<"b", "/", "c">> \notin Range(all_stores)
    /\ <<"b", "a">> \in Range(all_stores)

----------------------------------------------------------------------------
(* C5 *)

\* C5: a run without a prior reference (LAST_SYNC_DOCS_COMMIT unset or empty)
\* emits the full indexable store set of the tree and runs no git command.
C5_NoPriorFullSet ==
    NoPriorRun =>
        /\ git_calls = <<>>
        /\ pc # "raised"
        /\ pc = "done" =>
              /\ Len(stdout) = 1
              /\ Emitted = IndexableSet(max_depth)
              /\ Len(JsonStrings(stdout[1])) = Cardinality(IndexableSet(max_depth))

\* a finished run without a prior reference over a tree with two stores
C5_Witness ==
    /\ NoPriorRun
    /\ pc = "done"
    /\ Cardinality(IndexableSet(max_depth)) >= 2
    /\ Cardinality(Emitted) >= 2

----------------------------------------------------------------------------
(* C6 *)

\* C6: when the prior reference is valid and the diff lists no files, the run
\* emits the empty list, whatever the indexable set is.
C6_EmptyDiffEmptySet ==
    (pc = "done" /\ QueriesSucceeded /\ DiffEmpty) =>
        /\ stdout = << <<"[", "]">> >>
        /\ changed_dirs_json = <<"[", "]">>

\* a finished run with an empty diff over a tree with two stores
C6_Witness ==
    /\ pc = "done"
    /\ QueriesSucceeded
    /\ DiffEmpty
    /\ Cardinality(IndexableSet(max_depth)) >= 2
    /\ stdout = << <<"[", "]">> >>

----------------------------------------------------------------------------
(* C8 *)

\* the segments of a changed path, and the paths with a hidden segment
Segments(file_path) == Split(file_path, "/")

HasHiddenSegment(file_path) ==
    \E i \in 1..Len(Segments(file_path)) :
        /\ Segments(file_path)[i] # <<>>
        /\ Segments(file_path)[i][1] = "."

\* store s is the directory a changed path names or lies in
Under(file_path, s) ==
    LET seg == Segments(file_path)
        dir == Segments(s)
    IN  /\ Len(dir) <= Len(seg)
        /\ \A i \in 1..Len(dir) : seg[i] = dir[i]

\* the run has just mapped a non-empty diff to stores
Mapped == pc = "emit" /\ QueriesSucceeded /\ ~DiffEmpty

\* C8: a changed path whose first segment is .github, or that has a segment
\* starting with '.', adds no store to the changed set: every store of the
\* changed set has a changed path without hidden segment under it.
C8_HiddenPathsIgnored ==
    Mapped =>
        LET files   == changed_files
            visible == {files[i] : i \in {j \in 1..Len(files) : ~HasHiddenSegment(files[j])}}
            marked  == Range(JsonStrings(changed_dirs_json))
        IN  \A s \in marked : \E file_path \in visible : Under(file_path, s)

\* a mapping whose diff lists a path with a hidden segment under the
\* directory of an indexable store, and a path under .github, and that marks
\* no store
C8_Witness ==
    /\ Mapped
    /\ \E i \in 1..Len(changed_files) :
          \E s \in Range(all_stores) :
              HasHiddenSegment(changed_files[i]) /\ Under(changed_files[i], s)
    /\ \E i \in 1..Len(changed_files) :
          Segments(changed_files[i])[1] = <<".", "g", "i", "t", "h", "u", "b">>
    /\ changed_dirs_json = <<"[", "]">>

----------------------------------------------------------------------------
(* C9 *)

\* the tree docs/a/<file>, docs/b/c/<file> (and the checkout's .g/<file>)
TreeOfC9 ==
    [exists |-> TRUE,
     dirs   |-> {<<nG>>, <<nA>>, <<nB>>, <<nB, nC>>},
     files  |-> {<<nG, nF>>, <<nA, nF>>, <<nB, nC, nF>>}]

\* C9: for the tree a/<file>, b/c/<file> with max_depth 2 and no exclusion
\* pattern the indexable stores are exactly a and b/c; a diff that lists only
\* b/c/<file> yields the changed set ["b/c"]; and every identity returned is
\* the '/'-joined path of a directory relative to the documentation root.
C9_EndToEnd ==
    /\ DiscoveryRan =>
          LET identities == {Identity(p) : p \in fs.dirs}
          IN  Range(all_stores) \subseteq identities
    /\ (fs = TreeOfC9 /\ max_depth = 2 /\ load_exclusion_patterns = {}) =>
          /\ DiscoveryRan =>
                Range(all_stores) = {<<"a">>, <<"b", "/", "c">>}
          /\ (pc = "done" /\ QueriesSucceeded
                /\ changed_files = << <<"b", "/", "c", "/", "f">> >>) =>
                stdout = << <<"[", "\"", "b", "/", "c", "\"", "]">> >>

\* the end of the run of the scenario: both stores found, ["b/c"] printed
C9_Witness ==
    /\ fs = TreeOfC9 /\ max_depth = 2 /\ load_exclusion_patterns = {}
    /\ pc = "done" /\ QueriesSucceeded
    /\ changed_files = << <<"b", "/", "c", "/", "f">> >>
    /\ Range(all_stores) = {<<"a">>, <<"b", "/", "c">>}
    /\ stdout = << <<"[", "\"", "b", "/", "c", "\"", "]">> >>

----------------------------------------------------------------------------
(* C10 *)

----------------------------------------------------------------------------
(* C11 *)

\* C11: when the documentation root does not exist, a detection run ends
\* normally having emitted the empty list, with or without a prior reference:
\* it never raises, and what it has printed at its end is [].
C11_MissingRootEmitsEmpty ==
    ~fs.exists =>
        /\ pc # "raised"
        /\ pc = "done" => stdout = << <<"[", "]">> >>

----------------------------------------------------------------------------
(* C12 *)

\* the list is strictly increasing in Python's order on str
StrictlySorted(list) ==
    \A i \in 1..(Len(list) - 1) : StrLeq(list[i], list[i + 1]) /\ list[i] # list[i + 1]

\* C12: on the diff path the emitted changed set is a sorted list without
\* duplicates of indexable stores, and each store in it has a changed path
\* without hidden segment that is the store's identity or starts with the
\* identity followed by '/'; a path matching no indexable store adds nothing.
C12_ChangedSetSortedSubset ==
    (pc = "done" /\ QueriesSucceeded /\ ~DiffEmpty) =>
        LET files   == changed_files
            visible == {files[i] : i \in {j \in 1..Len(files) : ~HasHiddenSegment(files[j])}}
            list    == JsonStrings(stdout[1])
            stores  == IndexableSet(max_depth)
        IN  /\ StrictlySorted(list)
            /\ Range(list) \subseteq stores
            /\ Range(list) \subseteq Range(all_stores)
            /\ \A s \in Range(list) :
                  \E file_path \in visible :
                      file_path = s \/ StartsWith(file_path, s \o <<"/">>)

\* a run over a diff of two visible paths, one under an indexable store and
\* one under no indexable store, while a second store stays unmarked
C12_Witness ==
    /\ pc = "done" /\ QueriesSucceeded
    /\ Len(changed_files) = 2
    /\ \A i \in 1..2 : ~HasHiddenSegment(changed_files[i])
    /\ \E i \in 1..2 : \A s \in Range(all_stores) : ~matches(changed_files[i], s)
    /\ Len(JsonStrings(stdout[1])) = 1
    /\ Len(all_stores) = 2

----------------------------------------------------------------------------
(* C13 *)

\* C13: a run that ends (no prior reference, invalid reference, diff failure,
\* empty diff, non-empty diff) has written the JSON array exactly once to
\* standard output and, when GITHUB_OUTPUT is configured, exactly one
\* multi-line entry keyed changed_dirs holding the same JSON value.
C13_EmitsExactlyOnce ==
    pc = "done" =>
        /\ Len(stdout) = 1
        /\ stdout[1] = JsonDumps(JsonStrings(stdout[1]))
        /\ env.GITHUB_OUTPUT # Unset =>
              github_output = << "changed_dirs<<EOF_CHANGED_DIRS",
                                 stdout[1],
                                 "EOF_CHANGED_DIRS" >>
        /\ env.GITHUB_OUTPUT = Unset => github_output = <<>>

\* a run with GITHUB_OUTPUT configured whose diff failed and that ended with
\* one line printed and one entry written
C13_Witness ==
    /\ pc = "done"
    /\ env.GITHUB_OUTPUT # Unset
    /\ QueryFailed /\ Len(git_calls) = 2
    /\ Len(stdout) = 1
    /\ Len(github_output) = 3
    /\ github_output[2] = stdout[1]
    /\ stdout[1] # <<"[", "]">>

----------------------------------------------------------------------------
(* C14 *)

\* the texts a run over the inputs of the current state can print, over
\* every order in which the file system can enumerate directories
PossibleOutputs ==
    LET lists == get_indexable_stores(max_depth)
    IN  IF NoPriorRun \/ QueryFailed
        THEN {JsonDumps(stores) : stores \in lists}
        ELSE IF DiffEmpty THEN {JsonDumps(<<>>)}
        ELSE {JsonDumps(sorted(changed_stores(changed_files, stores))) : stores \in lists}

\* C14: the output list of a run is determined by the tree, the exclusion
\* patterns and the commit pair: whatever the enumeration order of the file
\* system, a run prints the same list, in the same order.
C14_Deterministic ==
    pc = "done" => \A out \in PossibleOutputs : stdout[1] = out

----------------------------------------------------------------------------
(* Stage 2: the sync programs.  The data they work on.                     *)

\* files per store directory in the modelled trees: 0..MaxFiles of AFiles
MaxFiles == 3

\* MIN_FILE_SIZE
MIN_FILE_SIZE == 10

\* ThreadPoolExecutor(max_workers=10)
max_workers == 10

sA == <<"a">>
sB == <<"b">>
sC == <<"c">>

\* a regular file below docs/<store>: the directories between the store and
\* the file, Path.stem, Path.suffix and st_size
File(parent, stem, suffix, size) ==
    [parent |-> parent, stem |-> stem, suffix |-> suffix, size |-> size]

\* the files docs/a can hold that qualify for upload, in the order in which
\* the trees of the model add them
AFiles ==
    << File(<<"x">>, "intro", ".mdx", 20),
       File(<<"y">>, "intro", ".mdx", 20),
       File(<<>>, "guide", ".md", 20),
       File(<<>>, "README", ".MD", 20),
       File(<<>>, "api", ".py", 20) >>

\* files of docs/a that do not qualify: extension, size, small __init__.py
ASkipped ==
    { File(<<>>, "logo", ".png", 500),
      File(<<>>, "empty", ".md", 0),
      File(<<"x">>, "__init__", ".py", 50) }

BFiles ==
    { File(<<>>, "readme", ".md", 16),
      File(<<>>, "usage", ".rst", 16) }

\* the local trees: docs/a with the first k files of AFiles and, when it
\* holds any, the files that do not qualify; docs/b with two files
DocsTrees ==
    { [d \in {sA, sB} |->
          IF d = sA
          THEN {AFiles[i] : i \in 1..k} \cup (IF k > 0 THEN ASkipped ELSE {})
          ELSE BFiles] : k \in 0..MaxFiles }

\* os.walk(store_path): nothing for a directory that does not exist
walk(store_name) ==
    IF store_name \in DOMAIN docs_tree THEN docs_tree[store_name] ELSE {}

\* str.lower() of the suffixes of the model
Lower(suffix) == CASE suffix = ".MD" -> ".md" [] OTHER -> suffix

extensions == {".md", ".mdx", ".txt", ".py", ".js", ".json", ".ts", ".tsx", ".jsx", ".rst"}

\* should_process_file(file_path)
should_process_file(file_path) ==
    /\ Lower(file_path.suffix) \in extensions
    /\ file_path.size >= MIN_FILE_SIZE
    /\ ~(file_path.stem = "__init__" /\ file_path.suffix = ".py" /\ file_path.size < 100)

\* estimated_tokens = file_size // 4
estimated_tokens(file_path) == file_path.size \div 4

\* f"{total_cost:.4f}" in units of 0.0001: (tokens / 1_000_000) * 0.15, rounded
cost_e4(tokens) == (tokens * 15 + 5000) \div 10000

\* a FileSearchStore of the service
Store(name, display_name, create_time) ==
    [name |-> name, display_name |-> display_name, create_time |-> create_time]

\* the collections of stores the service can hold when a sync run starts
RemoteInits ==
    { {},
      {Store(1, sA, 1)},
      {Store(1, sA, 1), Store(2, sA, 2)},
      {Store(1, sA, 1), Store(2, sB, 2), Store(3, sC, 3)} }

\* a call to the service: list, delete(name) or create(display_name)
Call(op, name, display_name, ok) ==
    [op |-> op, name |-> name, display_name |-> display_name, ok |-> ok]

ApiKeyValues == {Unset, "", "AIza-key"}

\* the texts CHANGED_DIRS can hold: JSON arrays of identities, JSON values
\* that are no array, and texts that are no JSON
ChangedDirsTexts ==
    { JsonDumps(<<>>),
      JsonDumps(<<sA>>),
      JsonDumps(<<sA, sB>>),
      JsonDumps(<<sB, sB>>),
      <<"\"", "b", "\"">>,
      <<"\"", "\"">>,
      <<"7">>,
      <<"0">>,
      <<"{", "\"", "b", "\"", ":", " ", "1", "}">>,
      <<"[", "\"", "a", "\"">>,
      <<>> }

ChangedDirsValues ==
    {[exists |-> FALSE, value |-> <<>>]}
        \cup {[exists |-> TRUE, value |-> t] : t \in ChangedDirsTexts}

Digits == {"0", "1", "7"}

\* the value json.loads returns: its type, what iterating it yields, and its
\* truth value; type "invalid" stands for json.JSONDecodeError
Value(type, items, truthy) == [type |-> type, items |-> items, truthy |-> truthy]

JSONDecodeError == Value("invalid", <<>>, FALSE)

\* json.loads(text) on the texts of the model
json_loads(text) ==
    LET quotes == {i \in 1..Len(text) : text[i] = "\""}
        even   == Cardinality(quotes) % 2 = 0
    IN  IF text = <<>> THEN JSONDecodeError
        ELSE IF text[1] = "["
        THEN IF even /\ text = JsonDumps(JsonStrings(text))
             THEN Value("list", JsonStrings(text), JsonStrings(text) # <<>>)
             ELSE JSONDecodeError
        ELSE IF text[1] = "\""
        THEN IF Len(text) >= 2 /\ quotes = {1, Len(text)}
             THEN Value("str", [i \in 1..(Len(text) - 2) |-> <<text[i + 1]>>], Len(text) > 2)
             ELSE JSONDecodeError
        ELSE IF text[1] \in Digits
        THEN IF /\ \A i \in 1..Len(text) : text[i] \in Digits
                /\ (Len(text) > 1 => text[1] # "0")
             THEN Value("int", <<>>, text # <<"0">>)
             ELSE JSONDecodeError
        ELSE IF text[1] = "{"
        THEN IF /\ even /\ Cardinality(quotes) = 2
                /\ \E d \in Digits :
                      text = <<"{", "\"">> \o JsonStrings(text)[1] \o <<"\"", ":", " ", d, "}">>
             THEN Value("dict", JsonStrings(text), TRUE)
             ELSE JSONDecodeError
        ELSE JSONDecodeError

\* os.environ.get('CHANGED_DIRS', '[]')
changed_dirs_text ==
    IF sync_env.CHANGED_DIRS.exists THEN sync_env.CHANGED_DIRS.value ELSE JsonDumps(<<>>)

\* a check that takes an empty credential for a credential
no_api_key_unset_only == sync_env.GEMINI_API_KEY = Unset

\* os.environ.get('GEMINI_API_KEY') is missing or empty
no_api_key == sync_env.GEMINI_API_KEY \in {Unset, ""}

\* write_output(key, value): the GITHUB_OUTPUT file after the call
write_output(key, value) ==
    IF sync_env.GITHUB_OUTPUT # Unset /\ sync_env.GITHUB_OUTPUT # ""
    THEN Append(sync_output, [key |-> key, value |-> value])
    ELSE sync_output

\* the lines main() writes to /tmp/sync_summary.txt at the end of a run
summary_lines(synced_count, t) ==
    << [key |-> "synced_count",   value |-> synced_count],
       [key |-> "total_cost",     value |-> cost_e4(t.tokens)],
       [key |-> "files_uploaded", value |-> t.uploaded],
       [key |-> "files_skipped",  value |-> t.skipped],
       [key |-> "files_failed",   value |-> t.failed] >>

\* a threshold that fails the run from a failure rate of 20% on
too_many_failed_inclusive(uploaded, failed) ==
    uploaded + failed > 0 /\ 5 * failed >= uploaded + failed

\* failure_rate > 0.2, for counts whose quotient the floating-point division
\* rounds to the double 0.2 only when it is exactly one fifth
too_many_failed(uploaded, failed) ==
    uploaded + failed > 0 /\ 5 * failed > uploaded + failed

----------------------------------------------------------------------------
(* Stage 2: main() of sync_stores.py, and main() with                      *)
(* sync_file_search_stores() of sync_file_search_stores.py.  The two       *)
(* programs differ in when they list the stores of the service (once,      *)
(* cached, or once per changed store), in which store of a display name    *)
(* they delete, and in what they write when nothing changed.               *)

SyncScripts == {"sync_stores", "sync_file_search_stores"}

\* the state of detection while another program runs
DetectIdle ==
    /\ fs = [exists |-> FALSE, dirs |-> {}, files |-> {}]
    /\ exclusion_file = [exists |-> FALSE, lines |-> <<>>]
    /\ env = [MAX_DEPTH |-> 0, LAST_SYNC_DOCS_COMMIT |-> Unset, GITHUB_OUTPUT |-> Unset]
    /\ pc = "idle"
    /\ git_calls = <<>>
    /\ result_stdout = <<>>
    /\ all_stores = <<>>
    /\ changed_dirs_json = <<>>
    /\ stdout = <<>>
    /\ github_output = <<>>

NoStore == [name |-> 0, display_name |-> <<>>, create_time |-> 0]

SyncInit ==
    /\ DetectIdle
    /\ CleanupIdle
    /\ script \in SyncScripts
    /\ sync_env \in [GEMINI_API_KEY : ApiKeyValues,
                     CHANGED_DIRS   : ChangedDirsValues,
                     GITHUB_OUTPUT  : GithubOutputValues]
    /\ docs_tree \in DocsTrees
    /\ remote \in RemoteInits
    /\ documents = {}
    /\ next_name = 4
    /\ api_calls = <<>>
    /\ sync_pc = "start"
    /\ client = FALSE
    /\ changed_dirs = Value("none", <<>>, FALSE)
    /\ stores_by_name = <<>>
    /\ idx = 1
    /\ new_store = NoStore
    /\ futures = <<>>
    /\ temp_dir = {}
    /\ operations = {}
    /\ failed_uploads = {}
    /\ completed = 0
    /\ totals = [uploaded |-> 0, failed |-> 0, skipped |-> 0, tokens |-> 0]
    /\ summary = <<>>
    /\ sync_output = <<>>
    /\ exit_code = -1

\* the process ends with the given status
Exit(status) ==
    /\ sync_pc' = "exit"
    /\ exit_code' = status

\* the identity the loop is at
store_name == changed_dirs.items[idx]

\* sync_stores.py 80-83, sync_file_search_stores.py 295-298
MissingKey ==
    /\ sync_pc = "start"
    /\ no_api_key
    /\ Exit(1)
    /\ UNCHANGED <<script, sync_env, docs_tree, remote, documents, next_name, api_calls,
                   client, changed_dirs, stores_by_name, idx, new_store, futures,
                   operations, failed_uploads, completed, totals, summary, sync_output>>
    /\ UNCHANGED temp_dir
    /\ UNCHANGED <<detect_vars, cleanup_vars>>

\* sync_stores.py 88-92, sync_file_search_stores.py 302-306
InvalidJson ==
    /\ sync_pc = "start"
    /\ ~no_api_key
    /\ json_loads(changed_dirs_text) = JSONDecodeError
    /\ Exit(1)
    /\ UNCHANGED <<script, sync_env, docs_tree, remote, documents, next_name, api_calls,
                   client, changed_dirs, stores_by_name, idx, new_store, futures,
                   operations, failed_uploads, completed, totals, summary, sync_output>>
    /\ UNCHANGED temp_dir
    /\ UNCHANGED <<detect_vars, cleanup_vars>>

\* sync_stores.py 94-102; sync_file_search_stores.py 309, 119-127, 325-341
NothingToSync ==
    /\ sync_pc = "start"
    /\ ~no_api_key
    /\ json_loads(changed_dirs_text) # JSONDecodeError
    /\ ~json_loads(changed_dirs_text).truthy
    /\ changed_dirs' = json_loads(changed_dirs_text)
    /\ client' = TRUE
    /\ sync_output' = write_output("synced_count", 0)
    /\ summary' = IF script = "sync_stores"
                  THEN << [key |-> "synced_count", value |-> 0],
                          [key |-> "total_cost",   value |-> 0] >>
                  ELSE summary_lines(0, totals)
    /\ Exit(0)
    /\ UNCHANGED <<script, sync_env, docs_tree, remote, documents, next_name,
                   api_calls, stores_by_name, idx, new_store, futures, operations,
                   failed_uploads, completed, totals>>
    /\ UNCHANGED temp_dir
    /\ UNCHANGED <<detect_vars, cleanup_vars>>

\* sync_stores.py 94-117: construct the client, list the stores once and
\* cache one store per display name (the one the listing yields last)
FetchStores ==
    /\ sync_pc = "start"
    /\ script = "sync_stores"
    /\ ~no_api_key
    /\ json_loads(changed_dirs_text) # JSONDecodeError
    /\ json_loads(changed_dirs_text).truthy
    /\ changed_dirs' = json_loads(changed_dirs_text)
    /\ client' = TRUE
    /\ \E ok \in BOOLEAN :
          /\ api_calls' = Append(api_calls, Call("list", 0, <<>>, ok))
          /\ IF ok
             THEN LET names == {s.display_name : s \in remote}
                  IN  stores_by_name' \in
                          {f \in [names -> remote] : \A n \in names : f[n].display_name = n}
             ELSE stores_by_name' = <<>>
    /\ sync_pc' = "loop"
    /\ UNCHANGED <<script, sync_env, docs_tree, remote, documents, next_name, idx,
                   new_store, futures, operations, failed_uploads, completed,
                   totals, summary, sync_output, exit_code>>
    /\ UNCHANGED temp_dir
    /\ UNCHANGED <<detect_vars, cleanup_vars>>

\* sync_file_search_stores.py 309-312, 119-132: construct the client and
\* enter sync_file_search_stores()
EnterSync ==
    /\ sync_pc = "start"
    /\ script = "sync_file_search_stores"
    /\ ~no_api_key
    /\ json_loads(changed_dirs_text) # JSONDecodeError
    /\ json_loads(changed_dirs_text).truthy
    /\ changed_dirs' = json_loads(changed_dirs_text)
    /\ client' = TRUE
    /\ sync_pc' = "loop"
    /\ UNCHANGED <<script, sync_env, docs_tree, remote, documents, next_name,
                   api_calls, stores_by_name, idx, new_store, futures, operations,
                   failed_uploads, completed, totals, summary, sync_output,
                   exit_code>>
    /\ UNCHANGED temp_dir
    /\ UNCHANGED <<detect_vars, cleanup_vars>>

\* sync_stores.py 119, sync_file_search_stores.py 134: iterating an int
\* raises TypeError, which nothing catches
NotIterable ==
    /\ sync_pc = "loop"
    /\ changed_dirs.type = "int"
    /\ Exit(1)
    /\ UNCHANGED <<script, sync_env, docs_tree, remote, documents, next_name, api_calls,
                   client, changed_dirs, stores_by_name, idx, new_store, futures,
                   operations, failed_uploads, completed, totals, summary, sync_output>>
    /\ UNCHANGED temp_dir
    /\ UNCHANGED <<detect_vars, cleanup_vars>>

\* the service deletes store s with force: the store and its documents go
Deleted(s) ==
    /\ remote' = remote \ {s}
    /\ documents' = {d \in documents : d.store # s.name}

\* sync_stores.py 125-138: delete the cached store of the display name
DeleteCached ==
    IF store_name \in DOMAIN stores_by_name
    THEN LET existing_store == stores_by_name[store_name]
         IN  \E ok \in {existing_store \in remote, FALSE} :
                /\ api_calls' = Append(api_calls,
                                       Call("delete", existing_store.name, <<>>, ok))
                /\ IF ok THEN Deleted(existing_store)
                   ELSE UNCHANGED <<remote, documents>>
    ELSE UNCHANGED <<api_calls, remote, documents>>

\* sync_file_search_stores.py 140-152: list the stores and delete the first
\* one listed with the display name
DeleteListed ==
    \/ /\ api_calls' = Append(api_calls, Call("list", 0, <<>>, FALSE))
       /\ UNCHANGED <<remote, documents>>
    \/ LET existing == {s \in remote : s.display_name = store_name}
       IN  IF existing = {}
           THEN /\ api_calls' = Append(api_calls, Call("list", 0, <<>>, TRUE))
                /\ UNCHANGED <<remote, documents>>
           ELSE \E first \in existing, ok \in BOOLEAN :
                   /\ api_calls' = api_calls \o << Call("list", 0, <<>>, TRUE),
                                                   Call("delete", first.name, <<>>, ok) >>
                   /\ IF ok THEN Deleted(first)
                      ELSE UNCHANGED <<remote, documents>>

\* sync_stores.py 119-138, sync_file_search_stores.py 134-152
DeleteExisting ==
    /\ sync_pc = "loop"
    /\ changed_dirs.type # "int"
    /\ idx <= Len(changed_dirs.items)
    /\ IF script = "sync_stores" THEN DeleteCached ELSE DeleteListed
    /\ sync_pc' = "create"
    /\ UNCHANGED <<script, sync_env, docs_tree, next_name, client, changed_dirs,
                   stores_by_name, idx, new_store, futures, operations,
                   failed_uploads, completed, totals, summary, sync_output,
                   exit_code>>
    /\ UNCHANGED temp_dir
    /\ UNCHANGED <<detect_vars, cleanup_vars>>

\* the files of the store that pass the filter, and the count of the others
files == {f \in walk(store_name) : should_process_file(f)}

skipped_count == Cardinality(walk(store_name) \ files)

\* a failed create that ends the run
CreateFails_aborts ==
    /\ sync_pc = "create"
    /\ api_calls' = Append(api_calls, Call("create", 0, store_name, FALSE))
    /\ Exit(1)
    /\ UNCHANGED <<script, sync_env, docs_tree, remote, documents, next_name, client,
                   changed_dirs, stores_by_name, idx, new_store, futures, operations,
                   failed_uploads, completed, totals, summary, sync_output>>
    /\ UNCHANGED temp_dir
    /\ UNCHANGED <<detect_vars, cleanup_vars>>

\* sync_stores.py 140-146, sync_file_search_stores.py 155-160: create fails
CreateFails ==
    /\ sync_pc = "create"
    /\ api_calls' = Append(api_calls, Call("create", 0, store_name, FALSE))
    /\ idx' = idx + 1
    /\ sync_pc' = "loop"
    /\ UNCHANGED <<script, sync_env, docs_tree, remote, documents, next_name,
                   client, changed_dirs, stores_by_name, new_store, futures,
                   operations, failed_uploads, completed, totals, summary,
                   sync_output, exit_code>>
    /\ UNCHANGED temp_dir
    /\ UNCHANGED <<detect_vars, cleanup_vars>>

\* sync_stores.py 140-199, sync_file_search_stores.py 155-213: create the
\* store, collect the files and submit one upload task per file; the pool
\* starts a thread per task until max_workers threads run
CreateStore ==
    /\ sync_pc = "create"
    /\ LET s == Store(next_name, store_name, next_name)
       IN  /\ api_calls' = Append(api_calls, Call("create", s.name, store_name, TRUE))
           /\ remote' = remote \cup {s}
           /\ new_store' = s
    /\ next_name' = next_name + 1
    /\ totals' = [totals EXCEPT !.skipped = @ + skipped_count]
    /\ operations' = {}
    /\ failed_uploads' = {}
    /\ completed' = 0
    /\ temp_dir' = {}
    /\ IF files = {}
       THEN /\ futures' = <<>>
            /\ idx' = idx + 1
            /\ sync_pc' = "loop"
       ELSE /\ \E started \in SUBSET files :
                  /\ Cardinality(started) =
                        (IF Cardinality(files) <= max_workers
                         THEN Cardinality(files) ELSE max_workers)
                  /\ futures' = [f \in files |->
                                    IF f \in started THEN "running" ELSE "queued"]
            /\ idx' = idx
            /\ sync_pc' = "upload"
    /\ UNCHANGED <<script, sync_env, docs_tree, documents, client, changed_dirs,
                   stores_by_name, summary, sync_output, exit_code>>
    /\ UNCHANGED <<detect_vars, cleanup_vars>>

\* the thread that finished task f takes the next queued task, if any
NextTask(f, outcome) ==
    LET queued == {g \in DOMAIN futures : futures[g] = "queued"}
    IN  IF queued = {}
        THEN {[futures EXCEPT ![f] = outcome]}
        ELSE {[futures EXCEPT ![f] = outcome, ![g] = "running"] : g \in queued}

\* prepare_file_for_upload: the path of the temporary copy of an .mdx file
temp_name(file_path) == file_path.stem

\* the file whose bytes the temporary file `name` holds
temp_content(name) == (CHOOSE t \in temp_dir : t.name = name).content

\* sync_stores.py 62-72, sync_file_search_stores.py 85-100:
\* prepare_file_for_upload in a worker thread, for an .mdx file:
\* shutil.copy2 writes the file to <temp_dir>/<stem>.md, over what is there
PrepareFile ==
    /\ sync_pc = "upload"
    /\ \E f \in DOMAIN futures :
          /\ futures[f] = "running"
          /\ Lower(f.suffix) = ".mdx"
          /\ temp_dir' = {t \in temp_dir : t.name # temp_name(f)}
                             \cup {[name |-> temp_name(f), content |-> f]}
          /\ futures' = [futures EXCEPT ![f] = "copied"]
    /\ UNCHANGED <<script, sync_env, docs_tree, remote, documents, next_name,
                   api_calls, sync_pc, client, changed_dirs, stores_by_name, idx,
                   new_store, operations, failed_uploads, completed, totals,
                   summary, sync_output, exit_code>>
    /\ UNCHANGED <<detect_vars, cleanup_vars>>

\* the path upload_file hands to the service: the file itself, or the
\* temporary copy of an .mdx file, read when the upload is made
upload_content(f) ==
    IF futures[f] = "copied" THEN temp_content(temp_name(f)) ELSE f

\* sync_stores.py 175-194, sync_file_search_stores.py 189-208: upload_file in
\* a worker thread, after prepare_file_for_upload: the service accepts the
\* bytes at upload_path under the file's name, or an exception (of the copy,
\* of stat or of the upload) is caught and returned as error
TaskSettles ==
    /\ sync_pc = "upload"
    /\ \E f \in DOMAIN futures :
          \/ /\ \/ futures[f] = "running" /\ Lower(f.suffix) # ".mdx"
                \/ futures[f] = "copied"
             /\ new_store \in remote
             /\ documents' = documents \cup {[store |-> new_store.name, file |-> f,
                                               content |-> upload_content(f)]}
             /\ futures' \in NextTask(f, "accepted")
          \/ /\ futures[f] \in {"running", "copied"}
             /\ documents' = documents
             /\ futures' \in NextTask(f, "error")
    /\ UNCHANGED <<script, sync_env, docs_tree, remote, next_name, api_calls,
                   sync_pc, client, changed_dirs, stores_by_name, idx, new_store,
                   temp_dir, operations, failed_uploads, completed, totals, summary,
                   sync_output, exit_code>>
    /\ UNCHANGED <<detect_vars, cleanup_vars>>

\* where main goes once the operations list is final: the wait loop when an
\* operation is left to count (216-224), else the next store
AfterUploads(ops, done_count) ==
    IF done_count < Cardinality(ops)
    THEN /\ sync_pc' = "wait"
         /\ idx' = idx
    ELSE /\ sync_pc' = "loop"
         /\ idx' = idx + 1

\* sync_stores.py 179-191, sync_file_search_stores.py 193-205: the file whose
\* bytes upload_file found at upload_path for task f (stat and the upload
\* read the same path)
uploaded(f) == (CHOOSE d \in documents : d.store = new_store.name /\ d.file = f).content

\* a collecting loop that an error ends: the tasks still out are not counted
Collect_stops_at_error ==
    /\ sync_pc = "upload"
    /\ \E f \in DOMAIN futures :
          /\ futures[f] \in {"accepted", "error"}
          /\ futures' = [futures EXCEPT ![f] = "counted"]
          /\ IF futures[f] = "error"
             THEN /\ totals' = [totals EXCEPT !.failed = @ + 1]
                  /\ failed_uploads' = failed_uploads \cup {f}
                  /\ operations' = operations
                  /\ AfterUploads(operations', 0)
             ELSE /\ totals' = [totals EXCEPT !.uploaded = @ + 1,
                                              !.tokens = @ + estimated_tokens(uploaded(f))]
                  /\ failed_uploads' = failed_uploads
                  /\ \E done \in BOOLEAN :
                        operations' = operations \cup {[file |-> f, done |-> done]}
                  /\ IF \A g \in DOMAIN futures : futures'[g] = "counted"
                     THEN AfterUploads(operations', 0)
                     ELSE UNCHANGED <<sync_pc, idx>>
    /\ temp_dir' = temp_dir
    /\ completed' = 0
    /\ UNCHANGED <<script, sync_env, docs_tree, remote, documents, next_name, api_calls,
                   client, changed_dirs, stores_by_name, new_store, summary,
                   sync_output, exit_code>>
    /\ UNCHANGED <<detect_vars, cleanup_vars>>

\* sync_stores.py 201-214, sync_file_search_stores.py 215-228: as_completed
\* yields a settled task and main counts it
Collect ==
    /\ sync_pc = "upload"
    /\ \E f \in DOMAIN futures :
          /\ futures[f] \in {"accepted", "error"}
          /\ futures' = [futures EXCEPT ![f] = "counted"]
          /\ IF futures[f] = "error"
             THEN /\ totals' = [totals EXCEPT !.failed = @ + 1]
                  /\ failed_uploads' = failed_uploads \cup {f}
                  /\ operations' = operations
             ELSE /\ totals' = [totals EXCEPT !.uploaded = @ + 1,
                                              !.tokens = @ + estimated_tokens(uploaded(f))]
                  /\ failed_uploads' = failed_uploads
                  /\ \E done \in BOOLEAN :
                        operations' = operations \cup {[file |-> f, done |-> done]}
    /\ IF \A g \in DOMAIN futures : futures'[g] = "counted"
       THEN AfterUploads(operations', 0) /\ temp_dir' = {}
       ELSE UNCHANGED <<sync_pc, idx, temp_dir>>
    /\ completed' = 0
    /\ UNCHANGED <<script, sync_env, docs_tree, remote, documents, next_name, api_calls,
                   client, changed_dirs, stores_by_name, new_store, summary,
                   sync_output, exit_code>>
    /\ UNCHANGED <<detect_vars, cleanup_vars>>

\* sync_stores.py 224-248, sync_file_search_stores.py 238-262: one round of
\* the wait loop: every operation not yet done is fetched again; the ones
\* the service now reports done are counted
Poll ==
    /\ sync_pc = "wait"
    /\ LET pending == {op \in operations : ~op.done}
       IN  \E newly \in SUBSET pending :
              /\ operations' = (operations \ newly)
                                   \cup {[op EXCEPT !.done = TRUE] : op \in newly}
              /\ completed' = completed + Cardinality(newly)
    /\ AfterUploads(operations', completed')
    /\ UNCHANGED <<script, sync_env, docs_tree, remote, documents, next_name, api_calls,
                   client, changed_dirs, stores_by_name, new_store, futures,
                   failed_uploads, totals, summary, sync_output, exit_code>>
    /\ UNCHANGED temp_dir
    /\ UNCHANGED <<detect_vars, cleanup_vars>>

\* sync_stores.py 225-227, sync_file_search_stores.py 239-241: max_wait is over
Timeout ==
    /\ sync_pc = "wait"
    /\ sync_pc' = "loop"
    /\ idx' = idx + 1
    /\ UNCHANGED <<script, sync_env, docs_tree, remote, documents, next_name,
                   api_calls, client, changed_dirs, stores_by_name, new_store,
                   futures, operations, failed_uploads, completed, totals,
                   summary, sync_output, exit_code>>
    /\ UNCHANGED temp_dir
    /\ UNCHANGED <<detect_vars, cleanup_vars>>

\* sync_stores.py 278-294; sync_file_search_stores.py 283-289, 325-341:
\* write the summary and the output, then exit by the failure rate
Finish ==
    /\ sync_pc = "loop"
    /\ changed_dirs.type # "int"
    /\ idx > Len(changed_dirs.items)
    /\ summary' = summary_lines(Len(changed_dirs.items), totals)
    /\ sync_output' = write_output("synced_count", Len(changed_dirs.items))
    /\ Exit(IF too_many_failed(totals.uploaded, totals.failed) THEN 1 ELSE 0)
    /\ UNCHANGED <<script, sync_env, docs_tree, remote, documents, next_name, api_calls,
                   client, changed_dirs, stores_by_name, idx, new_store, futures,
                   operations, failed_uploads, completed, totals>>
    /\ UNCHANGED temp_dir
    /\ UNCHANGED <<detect_vars, cleanup_vars>>

SyncNext ==
    \/ MissingKey
    \/ InvalidJson
    \/ NothingToSync
    \/ FetchStores
    \/ EnterSync
    \/ NotIterable
    \/ DeleteExisting
    \/ CreateFails
    \/ CreateStore
    \/ PrepareFile
    \/ TaskSettles
    \/ Collect
    \/ Poll
    \/ Timeout
    \/ Finish

SyncSpec == SyncInit /\ [][SyncNext]_vars

----------------------------------------------------------------------------
(* C15 *)

\* the files submitted to the pool for the store of this iteration
submitted == DOMAIN futures

\* every task of the store has settled and main has counted it
AllSettled == futures # <<>> /\ \A f \in submitted : futures[f] = "counted"

\* the files of the identities whose create call succeeded so far, counted
\* once per successful create
RECURSIVE SubmittedBy(_)
SubmittedBy(calls) ==
    IF calls = <<>> THEN 0
    ELSE (IF calls[1].op = "create" /\ calls[1].ok
          THEN Cardinality({f \in walk(calls[1].display_name) : should_process_file(f)})
          ELSE 0)
         + SubmittedBy(Tail(calls))

\* the tasks of this store that main has not counted yet
Uncounted == Cardinality({f \in submitted : futures[f] # "counted"})

----------------------------------------------------------------------------
(* C16 *)

\* the run ended before it attempted anything: the credential is missing,
\* CHANGED_DIRS is no JSON, or it is a number the loop cannot iterate
EndedAtStartup ==
    \/ no_api_key
    \/ json_loads(changed_dirs_text) = JSONDecodeError
    \/ json_loads(changed_dirs_text).type = "int" /\ json_loads(changed_dirs_text).truthy

\* C16 as stated: the run exits with failure if and only if an upload was
\* attempted and more than 20% of the attempts failed.
C16_AsStated ==
    sync_pc = "exit" =>
        (exit_code = 1 <=>
            /\ totals.uploaded + totals.failed > 0
            /\ 5 * totals.failed > totals.uploaded + totals.failed)

\* C16, amended: a run that gets to the failure-rate check exits with failure
\* if and only if an upload was attempted and more than 20% of the attempts
\* failed, so that a rate of exactly 20% and a run without attempts exit with
\* success; a run that ends at startup exits with failure without an attempt.
C16_ThresholdAtRateCheck ==
    sync_pc = "exit" =>
        /\ exit_code \in {0, 1}
        /\ ~EndedAtStartup =>
              (exit_code = 1 <=>
                  /\ totals.uploaded + totals.failed > 0
                  /\ 5 * totals.failed > totals.uploaded + totals.failed)
        /\ EndedAtStartup =>
              /\ exit_code = 1
              /\ totals.uploaded + totals.failed = 0

\* a run with five attempts of which one failed, exactly 20%, that exited
\* with success
C16_Witness ==
    /\ sync_pc = "exit"
    /\ totals.uploaded = 4
    /\ totals.failed = 1
    /\ exit_code = 0

----------------------------------------------------------------------------
(* C17 *)

\* CHANGED_DIRS is no JSON, or JSON that is no array
Malformed == json_loads(changed_dirs_text).type # "list"

\* C17: when CHANGED_DIRS is not valid JSON, or is valid JSON that is not a
\* list, the run makes no list, delete or create call and ends with failure.
C17_MalformedInputFatal ==
    Malformed =>
        /\ api_calls = <<>>
        /\ sync_pc = "exit" => exit_code = 1

----------------------------------------------------------------------------
(* C18 *)

\* C18: when GEMINI_API_KEY is unset or empty, the run constructs no client,
\* makes no list, delete, create or upload call and writes no summary file,
\* and it ends with failure status.
C18_MissingCredentialFatal ==
    sync_env.GEMINI_API_KEY \in {Unset, ""} =>
        /\ ~client
        /\ api_calls = <<>>
        /\ documents = {}
        /\ futures = <<>>
        /\ summary = <<>>
        /\ sync_pc \in {"start", "exit"}
        /\ sync_pc = "exit" => exit_code = 1

\* a run with an empty credential, a changed list of two stores and stores at
\* the service, that has ended with failure
C18_Witness ==
    /\ sync_env.GEMINI_API_KEY = ""
    /\ changed_dirs_text = JsonDumps(<<sA, sB>>)
    /\ remote # {}
    /\ sync_pc = "exit"
    /\ exit_code = 1
    /\ ~client

----------------------------------------------------------------------------
(* C19 *)

\* no call to the service has failed so far
AllCallsOk == \A i \in 1..Len(api_calls) : api_calls[i].ok

\* C19: once an identity of the changed list has been processed (its store
\* created, no call to the service having failed), the service holds exactly
\* one store with that display name, the newly created one: every store that
\* had the name before was deleted first.
C19_ReplacesWholesale ==
    (sync_pc \in {"upload", "wait", "loop", "exit"} /\ new_store # NoStore /\ AllCallsOk) =>
        {s \in remote : s.display_name = new_store.display_name} = {new_store}

----------------------------------------------------------------------------
(* Maintenance: cleanup_duplicate_stores(dry_run) of                       *)
(* scripts/cleanup_duplicate_stores.py.                                    *)

\* the stores the service can hold when the cleanup starts: three named a
\* (two of them created at the same time), two named b, one named c
CleanupStores ==
    { Store(1, sA, 1), Store(2, sA, 2), Store(3, sA, 2),
      Store(4, sB, 3), Store(5, sB, 1),
      Store(6, sC, 1) }

\* every order in which a listing can yield the stores of S
RECURSIVE Listings(_)
Listings(S) ==
    IF S = {} THEN {<<>>}
    ELSE UNION {{<<s>> \o rest : rest \in Listings(S \ {s})} : s \in S}

\* the keys of stores_by_name, in the order of their insertion
RECURSIVE KeysOf(_)
KeysOf(listing) ==
    IF listing = <<>> THEN <<>>
    ELSE LET rest == KeysOf(Tail(listing))
             n    == listing[1].display_name
             IsOther(m) == m # n
         IN  <<n>> \o SelectSeq(rest, IsOther)

\* stores_by_name[name]: the stores of the name, in listing order
Group(listing, name) ==
    LET Named(s) == s.display_name = name
    IN  SelectSeq(listing, Named)

\* a sort that puts the oldest store first
RECURSIVE SortOldestFirst(_)
SortOldestFirst(stores) ==
    IF stores = <<>> THEN <<>>
    ELSE LET s == stores[1]
             Older(t)    == t.create_time < s.create_time
             NotOlder(t) == t.create_time >= s.create_time
             rest == SortOldestFirst(Tail(stores))
         IN  SelectSeq(rest, Older) \o <<s>> \o SelectSeq(rest, NotOlder)

\* line 62: stores.sort(key=lambda s: s.create_time, reverse=True); the sort
\* is stable, stores of equal create_time keep their listing order
RECURSIVE SortNewestFirst(_)
SortNewestFirst(stores) ==
    IF stores = <<>> THEN <<>>
    ELSE LET s == stores[1]
             Newer(t)    == t.create_time > s.create_time
             NotNewer(t) == t.create_time <= s.create_time
             rest == SortNewestFirst(Tail(stores))
         IN  SelectSeq(rest, Newer) \o <<s>> \o SelectSeq(rest, NotNewer)

\* lines 47-64: per duplicated name, in dict order, the store kept and the
\* stores to delete
RECURSIVE Plan(_, _)
Plan(listing, names) ==
    IF names = <<>> THEN [keep |-> {}, delete |-> <<>>]
    ELSE LET stores == SortNewestFirst(Group(listing, names[1]))
             rest   == Plan(listing, Tail(names))
         IN  IF Len(stores) > 1
             THEN [keep   |-> {stores[1]} \cup rest.keep,
                   delete |-> Tail(stores) \o rest.delete]
             ELSE rest

CleanupInit ==
    /\ DetectIdle
    /\ script = "cleanup_duplicate_stores"
    /\ sync_env \in [GEMINI_API_KEY : ApiKeyValues,
                     CHANGED_DIRS   : {[exists |-> FALSE, value |-> <<>>]},
                     GITHUB_OUTPUT  : {Unset}]
    /\ docs_tree = <<>>
    /\ remote \in SUBSET CleanupStores
    /\ documents = {}
    /\ next_name = 7
    /\ api_calls = <<>>
    /\ sync_pc = "start"
    /\ client = FALSE
    /\ changed_dirs = Value("none", <<>>, FALSE)
    /\ stores_by_name = <<>>
    /\ idx = 1
    /\ new_store = NoStore
    /\ futures = <<>>
    /\ temp_dir = {}
    /\ operations = {}
    /\ failed_uploads = {}
    /\ completed = 0
    /\ totals = [uploaded |-> 0, failed |-> 0, skipped |-> 0, tokens |-> 0]
    /\ summary = <<>>
    /\ sync_output = <<>>
    /\ exit_code = -1
    /\ dry_run \in BOOLEAN
    /\ keep = {}
    /\ delete = <<>>
    /\ deleted_count = 0

\* lines 30-33
CleanupMissingKey ==
    /\ sync_pc = "start"
    /\ no_api_key
    /\ Exit(1)
    /\ UNCHANGED <<script, sync_env, docs_tree, remote, documents, next_name, api_calls,
                   client, changed_dirs, stores_by_name, idx, new_store, futures,
                   operations, failed_uploads, completed, totals, summary, sync_output>>
    /\ UNCHANGED temp_dir
    /\ UNCHANGED <<detect_vars, cleanup_vars>>

\* lines 35-38: the listing raises, and nothing catches the exception
ListFails ==
    /\ sync_pc = "start"
    /\ ~no_api_key
    /\ client' = TRUE
    /\ api_calls' = Append(api_calls, Call("list", 0, <<>>, FALSE))
    /\ Exit(1)
    /\ UNCHANGED <<script, sync_env, docs_tree, remote, documents, next_name,
                   changed_dirs, stores_by_name, idx, new_store, futures, operations,
                   failed_uploads, completed, totals, summary, sync_output>>
    /\ UNCHANGED temp_dir
    /\ UNCHANGED <<detect_vars, cleanup_vars>>

\* lines 35-64: list the stores, group them by display name and plan, per
\* duplicated name, which store to keep; return 0 when no name is duplicated
ListStores ==
    /\ sync_pc = "start"
    /\ ~no_api_key
    /\ client' = TRUE
    /\ api_calls' = Append(api_calls, Call("list", 0, <<>>, TRUE))
    /\ \E all_listed \in Listings(remote) :
          LET plan == Plan(all_listed, KeysOf(all_listed))
          IN  /\ keep' = plan.keep
              /\ delete' = plan.delete
              /\ IF plan.keep = {}
                 THEN Exit(0)
                 ELSE sync_pc' = "cleanup" /\ exit_code' = exit_code
    /\ UNCHANGED <<script, sync_env, docs_tree, remote, documents, next_name,
                   changed_dirs, stores_by_name, idx, new_store, futures, operations,
                   failed_uploads, completed, totals, summary, sync_output>>
    /\ UNCHANGED temp_dir
    /\ UNCHANGED <<detect_vars, dry_run, deleted_count>>

\* lines 71-91: the next old store: counted in a dry run; deleted, and
\* counted when the call succeeds, in a live run
DeleteOld ==
    /\ sync_pc = "cleanup"
    /\ delete # <<>>
    /\ LET old_store == Head(delete)
       IN  IF dry_run
           THEN /\ deleted_count' = deleted_count + 1
                /\ UNCHANGED <<remote, documents, api_calls>>
           ELSE \E ok \in {old_store \in remote, FALSE} :
                   /\ api_calls' = Append(api_calls,
                                          Call("delete", old_store.name, <<>>, ok))
                   /\ IF ok
                      THEN /\ Deleted(old_store)
                           /\ deleted_count' = deleted_count + 1
                      ELSE UNCHANGED <<remote, documents, deleted_count>>
    /\ delete' = Tail(delete)
    /\ UNCHANGED <<script, sync_env, docs_tree, next_name, sync_pc, client,
                   changed_dirs, stores_by_name, idx, new_store, futures, operations,
                   failed_uploads, completed, totals, summary, sync_output, exit_code>>
    /\ UNCHANGED temp_dir
    /\ UNCHANGED <<detect_vars, dry_run, keep>>

\* lines 95-108: return deleted_count
CleanupDone ==
    /\ sync_pc = "cleanup"
    /\ delete = <<>>
    /\ Exit(0)
    /\ UNCHANGED <<script, sync_env, docs_tree, remote, documents, next_name, api_calls,
                   client, changed_dirs, stores_by_name, idx, new_store, futures,
                   operations, failed_uploads, completed, totals, summary, sync_output>>
    /\ UNCHANGED temp_dir
    /\ UNCHANGED <<detect_vars, cleanup_vars>>

CleanupNext ==
    \/ CleanupMissingKey
    \/ ListFails
    \/ ListStores
    \/ DeleteOld
    \/ CleanupDone

CleanupSpec == CleanupInit /\ [][CleanupNext]_vars

----------------------------------------------------------------------------
(* C20 *)

\* the store of the model with the given resource name
StoreNamed(n) == CHOOSE s \in CleanupStores : s.name = n

\* the delete calls made so far, and the stores the service held at the start
DeleteCalls == {i \in 1..Len(api_calls) : api_calls[i].op = "delete"}

InitialStores ==
    remote \cup {StoreNamed(api_calls[i].name) : i \in {j \in DeleteCalls : api_calls[j].ok}}

\* the stores of S that share the display name of s
SameName(S, s) == {t \in S : t.display_name = s.display_name}

\* the number of stores of S beyond one per display name
Surplus(S) == Cardinality(S) - Cardinality({s.display_name : s \in S})

\* C20: the cleanup keeps only the most recently created store per display
\* name.  After a live run without a failed delete call every display name
\* that had several stores has exactly one, of the greatest create_time of
\* the name; no run ever deletes (or plans to delete) a store whose display
\* name is unique; a dry run makes no delete call and changes nothing, and
\* the count it reports is the number of stores a live run deletes.
C20_KeepsNewestPerName ==
    /\ \A i \in DeleteCalls :
          Cardinality(SameName(InitialStores, StoreNamed(api_calls[i].name))) > 1
    /\ \A i \in 1..Len(delete) : Cardinality(SameName(InitialStores, delete[i])) > 1
    /\ dry_run => DeleteCalls = {} /\ Surplus(remote) = Surplus(InitialStores)
    /\ (sync_pc = "exit" /\ exit_code = 0 /\ dry_run) =>
          deleted_count = Surplus(remote)
    /\ (sync_pc = "exit" /\ exit_code = 0 /\ ~dry_run /\ AllCallsOk) =>
          /\ Surplus(remote) = 0
          /\ {s.display_name : s \in remote} = {s.display_name : s \in InitialStores}
          /\ \A s \in remote : \A t \in SameName(InitialStores, s) :
                t.create_time <= s.create_time
          /\ deleted_count = Surplus(InitialStores)
          /\ Cardinality(DeleteCalls) = Surplus(InitialStores)

\* a live run without a failed call that deleted three stores: of the three
\* stores named a it kept one of the two newest, of the two named b the newer
C20_Witness ==
    /\ sync_pc = "exit" /\ exit_code = 0
    /\ ~dry_run
    /\ AllCallsOk
    /\ deleted_count = 3
    /\ remote = {Store(3, sA, 2), Store(4, sB, 3), Store(6, sC, 1)}

----------------------------------------------------------------------------
(* C21 *)

\* the credential is present and CHANGED_DIRS (or its default) is the empty list
EmptyChangedList ==
    /\ sync_env.GEMINI_API_KEY \notin {Unset, ""}
    /\ json_loads(changed_dirs_text).type = "list"
    /\ json_loads(changed_dirs_text).items = <<>>

\* C21: with an empty changed list the sync stage makes no list, delete,
\* create or upload call; it ends with success, having set the output
\* synced_count=0 and written a summary with synced_count=0,
\* total_cost=0.0000 and zero files uploaded, skipped and failed, the same
\* fields whichever of the two programs runs.
C21_EmptyListWritesZeros ==
    EmptyChangedList =>
        /\ api_calls = <<>>
        /\ documents = {}
        /\ futures = <<>>
        /\ sync_pc = "exit" =>
              /\ exit_code = 0
              /\ sync_env.GITHUB_OUTPUT # Unset =>
                    sync_output = << [key |-> "synced_count", value |-> 0] >>
              /\ summary = << [key |-> "synced_count",   value |-> 0],
                              [key |-> "total_cost",     value |-> 0],
                              [key |-> "files_uploaded", value |-> 0],
                              [key |-> "files_skipped",  value |-> 0],
                              [key |-> "files_failed",   value |-> 0] >>

----------------------------------------------------------------------------
(* C22 *)

\* the create calls made so far, in order
CreateCalls ==
    LET IsCreate(c) == c.op = "create"
    IN  SelectSeq(api_calls, IsCreate)

\* the run went through its loop to the final summary
LoopFinished == sync_pc = "exit" /\ changed_dirs.truthy /\ changed_dirs.type # "int"

\* C22: per store the order is delete attempt, create, upload.  A delete call,
\* failed or not, is followed by a create call; tasks run, and documents
\* exist, only for a store whose create call succeeded, in the iteration of
\* that call; a failed create starts no upload and the loop goes on, so that
\* the i-th create call is for the i-th identity and a finished run has made
\* one create call per identity of the changed list; and the reported
\* synced_count is the length of the changed list.
C22_DeleteCreateUpload ==
    /\ \A i \in 1..Len(api_calls) :
          api_calls[i].op = "delete" =>
              IF i < Len(api_calls)
              THEN api_calls[i + 1].op = "create"
              ELSE sync_pc = "create"
    /\ sync_pc \in {"upload", "wait"} =>
          /\ api_calls[Len(api_calls)] = Call("create", new_store.name, store_name, TRUE)
          /\ new_store \in remote
          /\ submitted = {f \in walk(store_name) : should_process_file(f)}
    /\ \A d \in documents :
          \E i \in 1..Len(api_calls) :
              /\ api_calls[i].op = "create"
              /\ api_calls[i].ok
              /\ api_calls[i].name = d.store
              /\ d.file \in walk(api_calls[i].display_name)
    /\ sync_pc \in {"loop", "create"} => Len(CreateCalls) = idx - 1
    /\ sync_pc \in {"upload", "wait"} => Len(CreateCalls) = idx
    /\ \A i \in 1..Len(CreateCalls) : CreateCalls[i].display_name = changed_dirs.items[i]
    /\ LoopFinished =>
          /\ Len(CreateCalls) = Len(changed_dirs.items)
          /\ Len(summary) = 5
          /\ summary[1] = [key |-> "synced_count", value |-> Len(changed_dirs.items)]
          /\ sync_env.GITHUB_OUTPUT # Unset =>
                sync_output =
                    << [key |-> "synced_count", value |-> Len(changed_dirs.items)] >>

\* a finished run over two identities: the delete and the create of the first
\* failed, the second store was created and holds documents, and
\* synced_count is 2
C22_Witness ==
    /\ LoopFinished
    /\ Len(changed_dirs.items) = 2
    /\ \E i \in 1..Len(api_calls) : api_calls[i].op = "delete" /\ ~api_calls[i].ok
    /\ ~CreateCalls[1].ok
    /\ CreateCalls[2].ok
    /\ documents # {}
    /\ summary[1].value = 2

----------------------------------------------------------------------------
(* C23 *)

\* C23: the wait loop counts every operation at most once, completed never
\* exceeds the number of operations, and a step of the loop after which every
\* operation is done leaves the loop, with completed equal to the number of
\* operations and not by the timeout, also when an operation was already
\* done when its upload call returned.
C23_WaitLoopPollsToCompletion ==
    [][ /\ completed' <= Cardinality(operations')
        /\ (sync_pc = "wait" /\ \A op \in operations' : op.done) =>
              /\ sync_pc' = "loop"
              /\ completed' = Cardinality(operations') ]_vars

----------------------------------------------------------------------------
(* C24 *)

\* C24: under every interleaving of the upload workers each task uploads the
\* content of its own source file: the temporary copy a worker made for an
\* .mdx file still holds that file when the worker uploads it, and every
\* document stored under a file's name holds that file's content, also when
\* two .mdx files of one store share a stem.
C24_UploadsOwnContent ==
    /\ \A f \in DOMAIN futures :
          futures[f] = "copied" => temp_content(temp_name(f)) = f
    /\ \A d \in documents : d.content = d.file

====
